---- MODULE Spec2Model ----
(***************************************************************************)
(* Model of scripts/setup_test_data.py: the connect-retry loop, the six    *)
(* batch generators, the post-load maintenance steps and main().           *)
(*                                                                         *)
(* The database is the environment.  A table is the sequence of its        *)
(* committed rows; users and products are identified by their position     *)
(* (the id the server assigned), orders carry their id explicitly because  *)
(* generate_orders computes one of its own.  Every statement sent to the   *)
(* server either succeeds or raises mysql.connector.Error.                 *)
(***************************************************************************)
EXTENDS Integers, Sequences, FiniteSets

VARIABLES
    pc,              \* position of the process in main()
    cfg,             \* USERS_COUNT .. PERFORMANCE_RECORDS (module level, l.26-30)
    retry_count,     \* wait_for_database: retry_count
    attempts,        \* calls of get_database_connection made by wait_for_database
    sleeps,          \* calls of time.sleep(2) made by wait_for_database
    opened,          \* connections opened so far
    closed,          \* connections closed so far
    conn,            \* main: conn ("none", "open", "closed")
    i,               \* loop variable i of the running generator
    user_ids,        \* local user_ids of the running generator
    products,        \* local products of generate_orders: [id, price]
    category_ids,    \* local category_ids of generate_products
    product_ids,     \* local product_ids of generate_reviews
    t_categories,    \* number of rows of table categories
    t_users,         \* table users: is_active, by id
    t_products,      \* table products: [price, is_active], by id
    t_orders,        \* table orders: [id, user_id, total_amount]
    t_order_items,   \* table order_items: [order_id, product_id, quantity, price_per_unit, total_price]
    t_reviews,       \* table reviews: [user_id, product_id, rating, comment]
    t_performance,   \* number of rows of table performance_test
    t_sessions,      \* table user_sessions: user_id
    next_order_id,   \* AUTO_INCREMENT of table orders
    first_order_id,  \* AUTO_INCREMENT of table orders when the run began
    commits,         \* conn.commit() calls, per generator
    idx_attempted,   \* CREATE INDEX statements executed
    idx_failed,      \* ... of which raised
    ana_attempted,   \* ANALYZE TABLE statements executed
    ana_failed,      \* ... of which raised
    report,          \* what verify_data_integrity printed
    completed,       \* the steps of main() that returned
    raised,          \* the exception that ended the run: [kind, at]
    exit_status      \* the status the process exited with, -1 while it runs

vars == << pc, cfg, retry_count, attempts, sleeps, opened, closed, conn, i,
           user_ids, products, category_ids, product_ids, t_categories, t_users,
           t_products,
           t_orders, t_order_items, t_reviews, t_performance, t_sessions,
           next_order_id, first_order_id, commits, idx_attempted, idx_failed,
           ana_attempted, ana_failed, report, completed, raised, exit_status >>

tables == << t_categories, t_users, t_products, t_orders, t_order_items,
             t_reviews, t_performance, t_sessions >>

locals == << i, user_ids, products, category_ids, product_ids >>

maint == << idx_attempted, idx_failed, ana_attempted, ana_failed, report >>

waitv == << retry_count, attempts, sleeps >>

-----------------------------------------------------------------------------
(* Bounds of the model *)

\* wait_for_database may call get_database_connection without end; the model
\* stops counting here
MaxAttempts == 32

\* batch_size of the generators, scaled down (1000, 1000, 500, 1000, 2000, 1000)
BatchUsers == 2
BatchProducts == 2
BatchOrders == 2
BatchReviews == 2
BatchPerformance == 2
BatchSessions == 2

\* random.randint(1, 5) items per order and random.randint(1, 3) units per
\* item, scaled down
MaxItems == 2
MaxQuantity == 2

\* the most statements that fail in one maintenance step
MaxStepFailures == 1

(* Program constants *)
max_retries == 30
NumIndexes == 7
NumTables == 8

\* the prices round(random.uniform(9.99, 999.99), 2) draws from, in cents
Prices == {1999}

\* the AUTO_INCREMENT values table orders starts with: 1 on a new table,
\* more once rows were inserted into it, whether or not they are still there
FirstOrderIds == {1, 2}

\* the configurations the runs are started with
Configs ==
    { [users |-> 0, products |-> 0, orders |-> 0, reviews |-> 0, performance |-> 0],
      [users |-> 2, products |-> 1, orders |-> 1, reviews |-> 1, performance |-> 3],
      [users |-> 1, products |-> 1, orders |-> 2, reviews |-> 0, performance |-> 0] }

Generators == {"users", "products", "orders", "reviews", "performance", "sessions"}

-----------------------------------------------------------------------------
(* Helpers *)

Min(a, b) == IF a < b THEN a ELSE b

\* Python's s[lo:hi] on a 0-based list
Slice(s, lo, hi) == SubSeq(s, lo + 1, hi)

\* all sequences over S of length n
RECURSIVE SeqsOfLen(_, _)
SeqsOfLen(S, n) ==
    IF n = 0 THEN { <<>> }
    ELSE { Append(s, x) : s \in SeqsOfLen(S, n - 1), x \in S }

RECURSIVE SumTotals(_)
SumTotals(items) ==
    IF items = <<>> THEN 0
    ELSE Head(items).total_price + SumTotals(Tail(items))

RECURSIVE Flatten(_)
Flatten(ss) == IF ss = <<>> THEN <<>> ELSE Head(ss) \o Flatten(Tail(ss))

\* the ids 1..n of the rows of a table of n rows
Ids(t) == [k \in 1..Len(t) |-> k]

\* the outcomes of mysql.connector.connect
ConnectOutcomes == {"ok", "Error", "Exception"}

NoException == [kind |-> "none", at |-> "none"]

NoReport ==
    [ran |-> FALSE, users |-> 0, products |-> 0, orders |-> 0, order_items |-> 0,
     reviews |-> 0, categories |-> 0, user_sessions |-> 0, performance_test |-> 0,
     orphaned_orders |-> 0, orphaned_items |-> 0]

-----------------------------------------------------------------------------
(* Init: main() is about to call wait_for_database *)

Init ==
    /\ pc = "wait"
    /\ cfg \in Configs
    /\ retry_count = 0
    /\ attempts = 0
    /\ sleeps = 0
    /\ opened = 0
    /\ closed = 0
    /\ conn = "none"
    /\ i = 0
    /\ user_ids = <<>>
    /\ products = <<>>
    /\ category_ids = <<>>
    /\ product_ids = <<>>
    /\ t_categories \in {0, 1}
    /\ t_users = <<>>
    /\ t_products = <<>>
    /\ t_orders = <<>>
    /\ t_order_items = <<>>
    /\ t_reviews = <<>>
    /\ t_performance = 0
    /\ t_sessions = <<>>
    /\ next_order_id \in FirstOrderIds
    /\ first_order_id = next_order_id
    /\ commits = [g \in Generators |-> 0]
    /\ idx_attempted = 0
    /\ idx_failed = 0
    /\ ana_attempted = 0
    /\ ana_failed = 0
    /\ report = NoReport
    /\ completed = {}
    /\ raised = NoException
    /\ exit_status = -1

-----------------------------------------------------------------------------
(* wait_for_database and get_database_connection *)

\* get_database_connection: the connection, None on mysql.connector.Error;
\* any other exception passes through
get_database_connection(outcome) ==
    CASE outcome = "ok" -> "conn"
      [] outcome = "Error" -> "None"
      [] OTHER -> "raise"

\* exit(success): True is status 1
ExitCode_Truthy(success) == IF success THEN 1 ELSE 0

\* __main__: exit(0 if success else 1)
ExitCode(success) == IF success THEN 0 ELSE 1

\* One iteration of the while loop of wait_for_database.  Its locals and the
\* counts of its calls end with the activation when it returns True.
WaitAttempt ==
    /\ pc = "wait"
    /\ retry_count < max_retries
    /\ attempts < MaxAttempts
    /\ \E outcome \in ConnectOutcomes :
         LET c == get_database_connection(outcome) IN
         CASE c = "conn" ->
                \* if conn: conn.close(); return True
                /\ opened' = opened + 1
                /\ closed' = closed + 1
                /\ pc' = "connect"
                /\ retry_count' = 0
                /\ attempts' = 0
                /\ sleeps' = 0
           [] c = "None" ->
                \* "if conn:" is false, nothing is raised: the loop goes round
                /\ attempts' = attempts + 1
                /\ UNCHANGED << opened, closed, pc, retry_count, sleeps >>
           [] OTHER ->
                \* except Exception: print, time.sleep(2), retry_count += 1
                /\ attempts' = attempts + 1
                /\ sleeps' = sleeps + 1
                /\ retry_count' = retry_count + 1
                /\ UNCHANGED << opened, closed, pc >>
    /\ UNCHANGED << cfg, conn, locals, tables, next_order_id, first_order_id,
                    commits, maint, completed, raised, exit_status >>

\* The loop ends: return False, main returns False, exit(1)
WaitGiveUp ==
    /\ pc = "wait"
    /\ retry_count >= max_retries
    /\ pc' = "done"
    /\ exit_status' = ExitCode(FALSE)
    /\ UNCHANGED << cfg, waitv, opened, closed, conn, locals, tables,
                    next_order_id, first_order_id, commits, maint, completed,
                    raised >>

\* main: conn = get_database_connection(); if not conn: return False
MainConnect ==
    /\ pc = "connect"
    /\ \E outcome \in ConnectOutcomes :
         LET c == get_database_connection(outcome) IN
         CASE c = "conn" ->
                /\ conn' = "open"
                /\ opened' = opened + 1
                /\ pc' = "users"
                /\ UNCHANGED << raised, exit_status >>
           [] c = "None" ->
                /\ pc' = "done"
                /\ exit_status' = ExitCode(FALSE)
                /\ UNCHANGED << conn, opened, raised >>
           [] OTHER ->
                \* nothing in main catches it: traceback, status 1
                /\ pc' = "done"
                /\ raised' = [kind |-> "Exception", at |-> "connect"]
                /\ exit_status' = 1
                /\ UNCHANGED << conn, opened >>
    /\ UNCHANGED << cfg, waitv, closed, locals, tables, next_order_id,
                    first_order_id, commits, maint, completed >>

-----------------------------------------------------------------------------
(* main: the try block's exits *)

\* main without its "finally": the connection stays open
Abort_NoFinally(kind, at) ==
    /\ raised' = [kind |-> kind, at |-> at]
    /\ conn' = conn
    /\ closed' = closed
    /\ pc' = "done"
    /\ exit_status' = 1

\* An exception leaves a step of the try block: "except Exception" prints it
\* and returns False, "finally" closes the connection (the server rolls back
\* what was not committed), and the process exits with ExitCode(False).
Abort(kind, at) ==
    /\ raised' = [kind |-> kind, at |-> at]
    /\ conn' = "closed"
    /\ closed' = closed + 1
    /\ pc' = "done"
    /\ exit_status' = ExitCode(FALSE)

\* range(0, count, batch_size): current_batch of the iteration at offset i
CurrentBatch(batch_size, count) == Min(batch_size, count - i)

-----------------------------------------------------------------------------
(* generate_users *)

\* is_active: random.choice([True, False]) if random.random() < 0.05 else True
ActiveDraws == BOOLEAN

GenerateUsersBatch ==
    /\ pc = "users"
    /\ i < cfg.users
    /\ \E users_data \in SeqsOfLen(ActiveDraws, CurrentBatch(BatchUsers, cfg.users)),
          ok \in BOOLEAN :
         IF ok
         THEN \* cursor.executemany; conn.commit()
              /\ t_users' = t_users \o users_data
              /\ commits' = [commits EXCEPT !["users"] = @ + 1]
              /\ i' = i + BatchUsers
              /\ UNCHANGED << pc, conn, closed, raised, exit_status >>
         ELSE /\ Abort("Error", "users")
              /\ UNCHANGED << t_users, commits, i >>
    /\ UNCHANGED << cfg, waitv, opened, user_ids, products, category_ids,
                    product_ids, t_categories, t_products, t_orders,
                    t_order_items, t_reviews, t_performance, t_sessions,
                    next_order_id, first_order_id, maint, completed >>

GenerateUsersEnd ==
    /\ pc = "users"
    /\ i >= cfg.users
    /\ pc' = "products"
    /\ i' = 0
    /\ completed' = completed \cup {"users"}
    /\ UNCHANGED << cfg, waitv, opened, closed, conn, user_ids, products,
                    category_ids, product_ids, tables, next_order_id,
                    first_order_id, commits, maint, raised, exit_status >>

-----------------------------------------------------------------------------
(* generate_products *)

\* cursor.execute("SELECT id FROM categories")
GenerateProductsStart ==
    /\ pc = "products"
    /\ \E ok \in BOOLEAN :
         IF ok
         THEN /\ category_ids' = [k \in 1..t_categories |-> k]
              /\ pc' = "products_loop"
              /\ UNCHANGED << conn, closed, raised, exit_status >>
         ELSE /\ Abort("Error", "products")
              /\ UNCHANGED category_ids
    /\ UNCHANGED << cfg, waitv, opened, i, user_ids, products, product_ids,
                    tables, next_order_id, first_order_id, commits, maint,
                    completed >>

GenerateProductsBatch ==
    /\ pc = "products_loop"
    /\ i < cfg.products
    /\ IF category_ids = <<>>
       THEN \* random.choice(category_ids) raises IndexError
            /\ Abort("IndexError", "products")
            /\ UNCHANGED << t_products, commits, i >>
       ELSE \E products_data \in
                 SeqsOfLen([price : Prices, is_active : ActiveDraws],
                           CurrentBatch(BatchProducts, cfg.products)),
               ok \in BOOLEAN :
              IF ok
              THEN /\ t_products' = t_products \o products_data
                   /\ commits' = [commits EXCEPT !["products"] = @ + 1]
                   /\ i' = i + BatchProducts
                   /\ UNCHANGED << pc, conn, closed, raised, exit_status >>
              ELSE /\ Abort("Error", "products")
                   /\ UNCHANGED << t_products, commits, i >>
    /\ UNCHANGED << cfg, waitv, opened, user_ids, products, category_ids,
                    product_ids, t_categories, t_users, t_orders, t_order_items,
                    t_reviews, t_performance, t_sessions, next_order_id,
                    first_order_id, maint, completed >>

GenerateProductsEnd ==
    /\ pc = "products_loop"
    /\ i >= cfg.products
    /\ pc' = "orders"
    /\ i' = 0
    /\ completed' = completed \cup {"products"}
    /\ UNCHANGED << cfg, waitv, opened, closed, conn, user_ids, products,
                    category_ids, product_ids, tables, next_order_id,
                    first_order_id, commits, maint, raised, exit_status >>

-----------------------------------------------------------------------------
(* generate_orders *)

Range(s) == { s[k] : k \in 1..Len(s) }

\* "SELECT id FROM users WHERE is_active = 1"
SelectActiveUserIds == SelectSeq(Ids(t_users), LAMBDA k : t_users[k])

\* "SELECT id, price FROM products WHERE is_active = 1"
SelectActiveProducts ==
    LET ids == SelectSeq(Ids(t_products), LAMBDA k : t_products[k].is_active)
    IN  [k \in 1..Len(ids) |-> [id |-> ids[k], price |-> t_products[ids[k]].price]]

\* "SELECT id FROM products WHERE is_active = 1"
SelectActiveProductIds ==
    SelectSeq(Ids(t_products), LAMBDA k : t_products[k].is_active)

GenerateOrdersStart ==
    /\ pc = "orders"
    /\ \E ok \in BOOLEAN :
         IF ok
         THEN /\ user_ids' = SelectActiveUserIds
              /\ products' = SelectActiveProducts
              /\ pc' = "orders_loop"
              /\ UNCHANGED << conn, closed, raised, exit_status >>
         ELSE /\ Abort("Error", "orders")
              /\ UNCHANGED << user_ids, products >>
    /\ UNCHANGED << cfg, waitv, opened, i, category_ids, product_ids, tables,
                    next_order_id, first_order_id, commits, maint, completed >>

\* one pass of "for item_num in range(num_items)": random.choice(products),
\* random.randint(1, 3)
ItemDraws(prods) == [product : Range(prods), quantity : 1..MaxQuantity]

\* one pass of "for j in range(current_batch)": random.choice(user_ids),
\* num_items = random.randint(1, 5) and the draws of its items
OrderDraws(uids, prods) ==
    [user_id : Range(uids),
     items : UNION { SeqsOfLen(ItemDraws(prods), n) : n \in 1..MaxItems }]

\* order_id = i + j + 1, j counted from 0
AssumedOrderId(offset, j) == offset + j + 1

\* the tuples appended to order_items_data for one order; amounts are in
\* cents, so that price * quantity and the sums are exact as they are for
\* the DECIMAL values the server returns
OrderItemsData(order_id, draw) ==
    [n \in 1..Len(draw.items) |->
        [order_id |-> order_id,
         product_id |-> draw.items[n].product.id,
         quantity |-> draw.items[n].quantity,
         price_per_unit |-> draw.items[n].product.price,
         total_price |-> draw.items[n].product.price * draw.items[n].quantity]]

\* order_data: user_id and round(order_total, 2)
OrderData(draw) ==
    [user_id |-> draw.user_id, total_amount |-> SumTotals(OrderItemsData(0, draw))]

\* a connection opened with autocommit: rows inserted stay without a commit
RolledBack_Autocommit(rows) == rows

\* what is left of the rows inserted since the last conn.commit() when main
\* closes the connection: mysql.connector.connect(**DB_CONFIG) sets no
\* autocommit, so the server rolls them back
RolledBack(rows) == <<>>

\* the rows the server stores for orders_data: ids from AUTO_INCREMENT on
InsertedOrders(orders_data) ==
    [k \in 1..Len(orders_data) |->
        [id |-> next_order_id + k - 1,
         user_id |-> orders_data[k].user_id,
         total_amount |-> orders_data[k].total_amount]]

GenerateOrdersBatch ==
    /\ pc = "orders_loop"
    /\ i < cfg.orders
    /\ IF user_ids = <<>> \/ products = <<>>
       THEN \* random.choice of an empty list raises IndexError
            /\ Abort("IndexError", "orders")
            /\ UNCHANGED << t_orders, t_order_items, next_order_id, commits, i >>
       ELSE \E draws \in SeqsOfLen(OrderDraws(user_ids, products),
                                   CurrentBatch(BatchOrders, cfg.orders)),
               failure \in {"none", "orders", "items"} :
              LET orders_data == [k \in 1..Len(draws) |-> OrderData(draws[k])]
                  order_items_data ==
                      Flatten([k \in 1..Len(draws) |->
                                  OrderItemsData(AssumedOrderId(i, k - 1), draws[k])])
              IN  CASE failure = "none" ->
                         \* both executemany succeed; conn.commit()
                         /\ t_orders' = t_orders \o InsertedOrders(orders_data)
                         /\ t_order_items' = t_order_items \o order_items_data
                         /\ next_order_id' = next_order_id + Len(orders_data)
                         /\ commits' = [commits EXCEPT !["orders"] = @ + 1]
                         /\ i' = i + BatchOrders
                         /\ UNCHANGED << pc, conn, closed, raised, exit_status >>
                    [] failure = "orders" ->
                         /\ Abort("Error", "orders")
                         /\ UNCHANGED << t_orders, t_order_items, next_order_id,
                                         commits, i >>
                    [] OTHER ->
                         \* the orders were inserted and are rolled back; the
                         \* ids they took are not given again
                         /\ Abort("Error", "orders")
                         /\ next_order_id' = next_order_id + Len(orders_data)
                         /\ t_orders' = t_orders \o RolledBack(InsertedOrders(orders_data))
                         /\ UNCHANGED << t_order_items, commits, i >>
    /\ UNCHANGED << cfg, waitv, opened, user_ids, products, category_ids,
                    product_ids, t_categories, t_users, t_products, t_reviews,
                    t_performance, t_sessions, first_order_id, maint, completed >>

GenerateOrdersEnd ==
    /\ pc = "orders_loop"
    /\ i >= cfg.orders
    /\ pc' = "reviews"
    /\ i' = 0
    /\ completed' = completed \cup {"orders"}
    /\ UNCHANGED << cfg, waitv, opened, closed, conn, user_ids, products,
                    category_ids, product_ids, tables, next_order_id,
                    first_order_id, commits, maint, raised, exit_status >>

-----------------------------------------------------------------------------
(* generate_reviews *)

review_templates ==
    << "Great product! Really satisfied with the quality.",
       "Good value for money. Would recommend.",
       "Excellent customer service and fast delivery.",
       "Product quality could be better.",
       "Amazing! Exceeded my expectations.",
       "Decent product but took too long to arrive.",
       "Perfect! Exactly what I was looking for.",
       "Not bad, but there are better alternatives.",
       "Outstanding quality and great price.",
       "Disappointed with the product quality." >>

\* the neutral band taken one rating too wide
CommentPool_WideNeutral(rating) ==
    IF rating >= 4 THEN Slice(review_templates, 0, 5)
    ELSE IF rating >= 2 THEN Slice(review_templates, 5, 7)
    ELSE Slice(review_templates, 7, Len(review_templates))

\* the list random.choice draws the comment from, by rating
CommentPool(rating) ==
    IF rating >= 4 THEN Slice(review_templates, 0, 5)
    ELSE IF rating >= 3 THEN Slice(review_templates, 5, 7)
    ELSE Slice(review_templates, 7, Len(review_templates))

\* one pass of "for j in range(current_batch)"
ReviewDraws(uids, pids) ==
    UNION { [user_id : Range(uids), product_id : Range(pids), rating : {r},
             comment : Range(CommentPool(r))] : r \in 1..5 }

GenerateReviewsStart ==
    /\ pc = "reviews"
    /\ \E ok \in BOOLEAN :
         IF ok
         THEN /\ user_ids' = SelectActiveUserIds
              /\ product_ids' = SelectActiveProductIds
              /\ pc' = "reviews_loop"
              /\ UNCHANGED << conn, closed, raised, exit_status >>
         ELSE /\ Abort("Error", "reviews")
              /\ UNCHANGED << user_ids, product_ids >>
    /\ UNCHANGED << cfg, waitv, opened, i, products, category_ids, tables,
                    next_order_id, first_order_id, commits, maint, completed >>

GenerateReviewsBatch ==
    /\ pc = "reviews_loop"
    /\ i < cfg.reviews
    /\ IF user_ids = <<>> \/ product_ids = <<>>
       THEN /\ Abort("IndexError", "reviews")
            /\ UNCHANGED << t_reviews, commits, i >>
       ELSE \E reviews_data \in SeqsOfLen(ReviewDraws(user_ids, product_ids),
                                          CurrentBatch(BatchReviews, cfg.reviews)),
               ok \in BOOLEAN :
              IF ok
              THEN /\ t_reviews' = t_reviews \o reviews_data
                   /\ commits' = [commits EXCEPT !["reviews"] = @ + 1]
                   /\ i' = i + BatchReviews
                   /\ UNCHANGED << pc, conn, closed, raised, exit_status >>
              ELSE /\ Abort("Error", "reviews")
                   /\ UNCHANGED << t_reviews, commits, i >>
    /\ UNCHANGED << cfg, waitv, opened, user_ids, products, category_ids,
                    product_ids, t_categories, t_users, t_products, t_orders,
                    t_order_items, t_performance, t_sessions, next_order_id,
                    first_order_id, maint, completed >>

GenerateReviewsEnd ==
    /\ pc = "reviews_loop"
    /\ i >= cfg.reviews
    /\ pc' = "performance"
    /\ i' = 0
    /\ completed' = completed \cup {"reviews"}
    /\ UNCHANGED << cfg, waitv, opened, closed, conn, user_ids, products,
                    category_ids, product_ids, tables, next_order_id,
                    first_order_id, commits, maint, raised, exit_status >>

-----------------------------------------------------------------------------
(* generate_performance_data *)

GeneratePerformanceBatch ==
    /\ pc = "performance"
    /\ i < cfg.performance
    /\ \E ok \in BOOLEAN :
         IF ok
         THEN /\ t_performance' =
                     t_performance + CurrentBatch(BatchPerformance, cfg.performance)
              /\ commits' = [commits EXCEPT !["performance"] = @ + 1]
              /\ i' = i + BatchPerformance
              /\ UNCHANGED << pc, conn, closed, raised, exit_status >>
         ELSE /\ Abort("Error", "performance")
              /\ UNCHANGED << t_performance, commits, i >>
    /\ UNCHANGED << cfg, waitv, opened, user_ids, products, category_ids,
                    product_ids, t_categories, t_users, t_products, t_orders,
                    t_order_items, t_reviews, t_sessions, next_order_id,
                    first_order_id, maint, completed >>

GeneratePerformanceEnd ==
    /\ pc = "performance"
    /\ i >= cfg.performance
    /\ pc' = "sessions"
    /\ i' = 0
    /\ completed' = completed \cup {"performance"}
    /\ UNCHANGED << cfg, waitv, opened, closed, conn, user_ids, products,
                    category_ids, product_ids, tables, next_order_id,
                    first_order_id, commits, maint, raised, exit_status >>

-----------------------------------------------------------------------------
(* generate_user_sessions *)

\* main: generate_user_sessions(conn, USERS_COUNT // 2)
SessionsCount == cfg.users \div 2

GenerateSessionsStart ==
    /\ pc = "sessions"
    /\ \E ok \in BOOLEAN :
         IF ok
         THEN /\ user_ids' = SelectActiveUserIds
              /\ pc' = "sessions_loop"
              /\ UNCHANGED << conn, closed, raised, exit_status >>
         ELSE /\ Abort("Error", "sessions")
              /\ UNCHANGED user_ids
    /\ UNCHANGED << cfg, waitv, opened, i, products, category_ids, product_ids,
                    tables, next_order_id, first_order_id, commits, maint,
                    completed >>

GenerateSessionsBatch ==
    /\ pc = "sessions_loop"
    /\ i < SessionsCount
    /\ IF user_ids = <<>>
       THEN /\ Abort("IndexError", "sessions")
            /\ UNCHANGED << t_sessions, commits, i >>
       ELSE \E sessions_data \in SeqsOfLen(Range(user_ids),
                                           CurrentBatch(BatchSessions, SessionsCount)),
               ok \in BOOLEAN :
              IF ok
              THEN /\ t_sessions' = t_sessions \o sessions_data
                   /\ commits' = [commits EXCEPT !["sessions"] = @ + 1]
                   /\ i' = i + BatchSessions
                   /\ UNCHANGED << pc, conn, closed, raised, exit_status >>
              ELSE /\ Abort("Error", "sessions")
                   /\ UNCHANGED << t_sessions, commits, i >>
    /\ UNCHANGED << cfg, waitv, opened, user_ids, products, category_ids,
                    product_ids, t_categories, t_users, t_products, t_orders,
                    t_order_items, t_reviews, t_performance, next_order_id,
                    first_order_id, maint, completed >>

GenerateSessionsEnd ==
    /\ pc = "sessions_loop"
    /\ i >= SessionsCount
    /\ pc' = "indexes"
    /\ i' = 0
    /\ completed' = completed \cup {"sessions"}
    /\ UNCHANGED << cfg, waitv, opened, closed, conn, user_ids, products,
                    category_ids, product_ids, tables, next_order_id,
                    first_order_id, commits, maint, raised, exit_status >>

-----------------------------------------------------------------------------
(* create_additional_indexes and update_statistics *)

\* no try/except around the statement: the error leaves the loop and the
\* function, and the rest of the list is not executed
OnStatementError_Propagate(rest) ==
    [attempted |-> 1, failed |-> 1, propagated |-> TRUE]

\* "except mysql.connector.Error as err: print(...)" inside the for loop: the
\* failed statement is counted and the loop goes on with the rest
OnStatementError(rest) ==
    [attempted |-> rest.attempted + 1, failed |-> rest.failed + 1,
     propagated |-> rest.propagated]

\* "for ... : try: cursor.execute(...); conn.commit()" over statements k..n,
\* of which those in fails raise mysql.connector.Error
RECURSIVE ExecuteEach(_, _, _)
ExecuteEach(k, n, fails) ==
    IF k > n THEN [attempted |-> 0, failed |-> 0, propagated |-> FALSE]
    ELSE IF k \in fails THEN OnStatementError(ExecuteEach(k + 1, n, fails))
    ELSE LET rest == ExecuteEach(k + 1, n, fails)
         IN  [attempted |-> rest.attempted + 1, failed |-> rest.failed,
              propagated |-> rest.propagated]

\* the sets of statements that fail in one step
FailureSets(n) == { f \in SUBSET (1..n) : Cardinality(f) <= MaxStepFailures }

create_additional_indexes ==
    /\ pc = "indexes"
    /\ \E fails \in FailureSets(NumIndexes) :
         LET r == ExecuteEach(1, NumIndexes, fails) IN
         /\ idx_attempted' = r.attempted
         /\ idx_failed' = r.failed
         /\ IF r.propagated
            THEN /\ Abort("Error", "indexes")
                 /\ UNCHANGED completed
            ELSE /\ pc' = "statistics"
                 /\ completed' = completed \cup {"indexes"}
                 /\ UNCHANGED << conn, closed, raised, exit_status >>
    /\ UNCHANGED << cfg, waitv, opened, locals, tables, next_order_id,
                    first_order_id, commits, ana_attempted, ana_failed, report >>

update_statistics ==
    /\ pc = "statistics"
    /\ \E fails \in FailureSets(NumTables) :
         LET r == ExecuteEach(1, NumTables, fails) IN
         /\ ana_attempted' = r.attempted
         /\ ana_failed' = r.failed
         /\ IF r.propagated
            THEN /\ Abort("Error", "statistics")
                 /\ UNCHANGED completed
            ELSE /\ pc' = "verify"
                 /\ completed' = completed \cup {"statistics"}
                 /\ UNCHANGED << conn, closed, raised, exit_status >>
    /\ UNCHANGED << cfg, waitv, opened, locals, tables, next_order_id,
                    first_order_id, commits, idx_attempted, idx_failed, report >>

-----------------------------------------------------------------------------
(* verify_data_integrity *)

\* orders o LEFT JOIN users u ON o.user_id = u.id WHERE u.id IS NULL
OrphanedOrders ==
    Len(SelectSeq(t_orders, LAMBDA o : o.user_id \notin 1..Len(t_users)))

\* order_items oi LEFT JOIN orders o ON oi.order_id = o.id WHERE o.id IS NULL
OrphanedItems ==
    Len(SelectSeq(t_order_items,
                  LAMBDA oi : \A k \in 1..Len(t_orders) : t_orders[k].id # oi.order_id))

\* the SELECT COUNT(*) of each table and the two orphan counts
Verification ==
    [ran |-> TRUE, users |-> Len(t_users), products |-> Len(t_products),
     orders |-> Len(t_orders), order_items |-> Len(t_order_items),
     reviews |-> Len(t_reviews), categories |-> t_categories,
     user_sessions |-> Len(t_sessions), performance_test |-> t_performance,
     orphaned_orders |-> OrphanedOrders, orphaned_items |-> OrphanedItems]

verify_data_integrity ==
    /\ pc = "verify"
    /\ \E ok \in BOOLEAN :
         IF ok
         THEN \* the function returns; main prints the summary and returns
              \* True, "finally" closes the connection, exit(0)
              /\ report' = Verification
              /\ completed' = completed \cup {"verify"}
              /\ conn' = "closed"
              /\ closed' = closed + 1
              /\ pc' = "done"
              /\ exit_status' = ExitCode(TRUE)
              /\ UNCHANGED raised
         ELSE \* a query raises; nothing in the function catches it
              /\ Abort("Error", "verify")
              /\ UNCHANGED << report, completed >>
    /\ UNCHANGED << cfg, waitv, opened, locals, tables, next_order_id,
                    first_order_id, commits, idx_attempted, idx_failed,
                    ana_attempted, ana_failed >>

-----------------------------------------------------------------------------

Next ==
    \/ WaitAttempt
    \/ WaitGiveUp
    \/ MainConnect
    \/ GenerateUsersBatch
    \/ GenerateUsersEnd
    \/ GenerateProductsStart
    \/ GenerateProductsBatch
    \/ GenerateProductsEnd
    \/ GenerateOrdersStart
    \/ GenerateOrdersBatch
    \/ GenerateOrdersEnd
    \/ GenerateReviewsStart
    \/ GenerateReviewsBatch
    \/ GenerateReviewsEnd
    \/ GeneratePerformanceBatch
    \/ GeneratePerformanceEnd
    \/ GenerateSessionsStart
    \/ GenerateSessionsBatch
    \/ GenerateSessionsEnd
    \/ create_additional_indexes
    \/ update_statistics
    \/ verify_data_integrity

Spec == Init /\ [][Next]_vars

-----------------------------------------------------------------------------
(* Properties *)

Terminated == pc = "done"

\* wait_for_database returned False: the run ended before main opened conn
\* and nothing was raised
GaveUp == Terminated /\ conn = "none" /\ raised = NoException /\ opened = 0

\* a statement sent to the server, or a connection attempt, failed
ServerFailed == raised.kind \in {"Error", "Exception"}

\* C1: wait_for_database makes at most 30 connection attempts; while it waits
\* every attempt made so far has failed and was followed by one sleep; when it
\* gives up it has made exactly 30 attempts and 30 sleeps, and the process
\* exits with status 1 and no uncaught exception.
C1_BoundedConnectRetry ==
    /\ attempts <= max_retries
    /\ pc = "wait" => sleeps = attempts /\ retry_count = attempts
    /\ GaveUp =>
          /\ attempts = max_retries
          /\ sleeps = max_retries
          /\ exit_status = 1

\* the rows a generator has inserted (the tables are empty when the run starts)
Rows(g) ==
    CASE g = "users" -> Len(t_users)
      [] g = "products" -> Len(t_products)
      [] g = "orders" -> Len(t_orders)
      [] g = "reviews" -> Len(t_reviews)
      [] g = "performance" -> t_performance
      [] OTHER -> Len(t_sessions)

\* the count main passes to a generator
Target(g) == IF g = "sessions" THEN SessionsCount ELSE cfg[g]

BatchSize(g) ==
    CASE g = "users" -> BatchUsers
      [] g = "products" -> BatchProducts
      [] g = "orders" -> BatchOrders
      [] g = "reviews" -> BatchReviews
      [] g = "performance" -> BatchPerformance
      [] OTHER -> BatchSessions

Ceil(n, d) == (n + d - 1) \div d

\* the generator was called and has ended, by returning or by raising
\* something other than a failure of the server
EndedWithoutServerFailure(g) ==
    \/ g \in completed
    \/ raised.at = g /\ ~ServerFailed

\* C2: on a database whose categories are seeded, every generator called with
\* an open connection and a count n has, when it ends without a failure of the
\* server, inserted exactly n rows, in ceil(n / batch_size) batches with one
\* commit each.
C2_ExactRowCount ==
    t_categories > 0 =>
        \A g \in Generators :
            EndedWithoutServerFailure(g) =>
                /\ Rows(g) = Target(g)
                /\ commits[g] = Ceil(Target(g), BatchSize(g))

\* the order_items rows whose order_id is id
ItemsOf(id) == SelectSeq(t_order_items, LAMBDA oi : oi.order_id = id)

\* C3: the k-th order inserted has the id the generator assumed for it (k),
\* between 1 and 5 order_items rows carry its id, and its total_amount is the
\* sum of their total_price; each total_price is price_per_unit x quantity.
C3_OrderTotalsMatchItems ==
    /\ \A k \in 1..Len(t_orders) :
          /\ t_orders[k].id = k
          /\ Len(ItemsOf(t_orders[k].id)) \in 1..5
          /\ t_orders[k].total_amount = SumTotals(ItemsOf(t_orders[k].id))
    /\ \A n \in 1..Len(t_order_items) :
          t_order_items[n].total_price =
              t_order_items[n].price_per_unit * t_order_items[n].quantity

OrderIds == { t_orders[k].id : k \in 1..Len(t_orders) }

\* C4: in every committed state every order_items row refers to an existing
\* order and an existing product, and every order to an existing active user.
C4_NoOrphans ==
    /\ \A n \in 1..Len(t_order_items) :
          /\ t_order_items[n].order_id \in OrderIds
          /\ t_order_items[n].product_id \in 1..Len(t_products)
    /\ \A k \in 1..Len(t_orders) :
          /\ t_orders[k].user_id \in 1..Len(t_users)
          /\ t_users[t_orders[k].user_id]

\* review_templates[lo], ..., review_templates[hi], counted from 0 as in Python
TemplatesAt(lo, hi) == { review_templates[k + 1] : k \in lo..hi }

\* C5: a review rated 4 or 5 has one of the templates 0..4 as comment, one
\* rated 3 one of 5..6, one rated 1 or 2 one of 7..9; the three pools are
\* pairwise disjoint and make up the 10 templates, so that two reviews with
\* the same comment are in the same rating band.
C5_RatingCommentMapping ==
    /\ \A k \in 1..Len(t_reviews) :
          LET r == t_reviews[k] IN
          /\ r.rating \in 1..5
          /\ r.rating \in {4, 5} => r.comment \in TemplatesAt(0, 4)
          /\ r.rating = 3 => r.comment \in TemplatesAt(5, 6)
          /\ r.rating \in {1, 2} => r.comment \in TemplatesAt(7, 9)
    /\ TemplatesAt(0, 4) \cap TemplatesAt(5, 6) = {}
    /\ TemplatesAt(0, 4) \cap TemplatesAt(7, 9) = {}
    /\ TemplatesAt(5, 6) \cap TemplatesAt(7, 9) = {}
    /\ Cardinality(TemplatesAt(0, 4) \cup TemplatesAt(5, 6) \cup TemplatesAt(7, 9)) = 10
    /\ Len(review_templates) = 10

\* a neutral review and its comment have been committed
C5_Witness ==
    /\ Len(t_reviews) > 0
    /\ t_reviews[1].rating = 3
    /\ t_reviews[1].comment = "Perfect! Exactly what I was looking for."

\* the steps of the try block of main
AllSteps == Generators \cup {"indexes", "statistics", "verify"}

\* C6: a run on a reachable database that is new (the entity tables are empty
\* and their AUTO_INCREMENT is 1, the categories are seeded) and on which no
\* statement fails completes whatever the random draws are, and verification
\* reports the configured counts, USERS_COUNT // 2 sessions and no orphans.
C6_EndToEndCounts ==
    (/\ Terminated
     /\ conn # "none"
     /\ ~ServerFailed
     /\ first_order_id = 1
     /\ t_categories > 0) =>
        /\ exit_status = 0
        /\ report.ran
        /\ report.users = cfg.users
        /\ report.products = cfg.products
        /\ report.orders = cfg.orders
        /\ report.reviews = cfg.reviews
        /\ report.performance_test = cfg.performance
        /\ report.user_sessions = cfg.users \div 2
        /\ report.orphaned_orders = 0
        /\ report.orphaned_items = 0

\* C7: the process has no exit status while it runs and 0 or 1 once it has
\* ended; it is 0 exactly when the working connection was opened, every step of
\* the try block returned and nothing was raised, and 1 otherwise.
C7_ExitStatus ==
    /\ ~Terminated => exit_status = -1
    /\ Terminated =>
          /\ exit_status \in {0, 1}
          /\ exit_status = 0 <=>
                (conn # "none" /\ completed = AllSteps /\ raised = NoException)
          /\ (conn = "none" \/ raised # NoException) => exit_status = 1

\* a run with rows to generate has ended with status 0
C7_Witness ==
    /\ Terminated
    /\ exit_status = 0
    /\ cfg.orders > 0
    /\ completed = AllSteps

\* C8: when the process has ended every connection it opened, the probe of
\* wait_for_database and the connection of main, has been closed; at no time
\* is more than one connection open.
C8_ConnectionsClosed ==
    /\ closed <= opened
    /\ opened - closed <= 1
    /\ Terminated => (closed = opened /\ conn # "open")

\* a run has ended on an exception raised by a generator, with both of its
\* connections closed
C8_Witness ==
    /\ Terminated
    /\ raised.kind = "IndexError"
    /\ opened = 2
    /\ closed = 2
    /\ conn = "closed"

\* C9: verify_data_integrity changes no table, and whatever its queries do the
\* run, whose generation and maintenance have succeeded when it is called,
\* ends with status 0.
C9_VerificationObservational ==
    [][pc = "verify" => (tables' = tables /\ exit_status' = 0)]_vars

\* C10: a maintenance step that was started has executed its whole list (7
\* indexes, 8 tables) and returned, whichever statements failed; a run whose
\* generators returned goes on to verification with both lists executed, and
\* if it ends with status 1 the exception came from verification.
C10_MaintenanceNonFatal ==
    /\ (idx_attempted > 0 \/ raised.at = "indexes") =>
          /\ idx_attempted = NumIndexes
          /\ "indexes" \in completed
          /\ raised.at # "indexes"
    /\ (ana_attempted > 0 \/ raised.at = "statistics") =>
          /\ ana_attempted = NumTables
          /\ "statistics" \in completed
          /\ raised.at # "statistics"
    /\ (Terminated /\ "sessions" \in completed) =>
          /\ idx_attempted = NumIndexes
          /\ ana_attempted = NumTables
          /\ report.ran \/ raised.at = "verify"
          /\ exit_status = 1 => raised.at = "verify"

\* an index and a table analysis failed, and the run ended with status 0
\* after verification
C10_Witness ==
    /\ Terminated
    /\ idx_failed > 0
    /\ ana_failed > 0
    /\ idx_attempted = NumIndexes
    /\ ana_attempted = NumTables
    /\ report.ran
    /\ exit_status = 0

\* the place of a generator in the sequence main calls them in
CallOrder(g) ==
    CASE g = "users" -> 1
      [] g = "products" -> 2
      [] g = "orders" -> 3
      [] g = "reviews" -> 4
      [] g = "performance" -> 5
      [] OTHER -> 6

\* the order ids the committed order_items rows carry
ItemOrderIds == { t_order_items[n].order_id : n \in 1..Len(t_order_items) }

\* C11: when a statement of generator g has raised mysql.connector.Error, in
\* batch b = commits[g] + 1, the run has ended with status 1; the table of g
\* holds the rows of the b - 1 full batches committed before and none of batch
\* b (for orders: neither an order nor an item of batch b, also when the
\* orders had been inserted before the items failed); the generators called
\* before g have all their rows, those after g were not called, and no
\* index, statistics or verification step was executed.
C11_InsertFailureAborts ==
    \A g \in Generators :
        (raised.kind = "Error" /\ raised.at = g) =>
            /\ Terminated
            /\ exit_status = 1
            /\ conn = "closed"
            /\ g \notin completed
            /\ commits[g] < Ceil(Target(g), BatchSize(g)) \/ Rows(g) = 0
            /\ Rows(g) = commits[g] * BatchSize(g)
            /\ g = "orders" =>
                  /\ ItemOrderIds = 1..Len(t_orders)
                  /\ next_order_id - first_order_id \in
                        {Len(t_orders), Min(Len(t_orders) + BatchOrders, cfg.orders)}
            /\ \A h \in Generators :
                  /\ CallOrder(h) < CallOrder(g) =>
                        (h \in completed /\ Rows(h) = Target(h))
                  /\ CallOrder(h) > CallOrder(g) =>
                        (h \notin completed /\ Rows(h) = 0 /\ commits[h] = 0)
            /\ idx_attempted = 0
            /\ ana_attempted = 0
            /\ ~report.ran
            /\ completed \cap {"indexes", "statistics", "verify"} = {}

\* the second batch of performance records failed: the first batch is in the
\* table, the third record is not, and the run has ended with status 1
C11_Witness ==
    /\ Terminated
    /\ raised = [kind |-> "Error", at |-> "performance"]
    /\ commits["performance"] = 1
    /\ t_performance = BatchPerformance
    /\ cfg.performance > BatchPerformance
    /\ exit_status = 1

====
